---- MODULE Spec2Model ----
(***************************************************************************)
(* A model of brkraw's JCAMP-DX parameter decoder                          *)
(* (src/brkraw/api/pvobj/parser.py): the regular expressions, the Parser   *)
(* static methods and the construction of a Parameter object.              *)
(*                                                                         *)
(* A Python str is a sequence of one-character strings.  A Python value is *)
(* a record tagged by its type in field t:                                 *)
(*   [t |-> "None"]                       None                             *)
(*   [t |-> "Int",   v |-> i]             int                              *)
(*   [t |-> "Float", k, neg, m, e]        float: k = "fin" is the number   *)
(*                                        (-1)^neg * m * 10^e with m not   *)
(*                                        divisible by 10 (m = 0: e = 0),  *)
(*                                        k = "inf" an infinity            *)
(*   [t |-> "Str",   s |-> chars]         str                              *)
(*   [t |-> "List",  items |-> seq]       list                             *)
(*   [t |-> "Dict",  levels |-> seq]      the dict of process_complexarray *)
(*                                        keys level_1 .. level_n in order *)
(*   [t |-> "NdArray", dtype, shape, leaves]  a numpy array                *)
(*   [t |-> "Raise", exc |-> name]        the call raised exception name   *)
(***************************************************************************)
EXTENDS Integers, Sequences, FiniteSets, TLC

\* ------------------------------------------------------------------ bounds

\* Longest token handed to the value classifier.
MaxTokenLen == 4

\* Most tokens in a payload handed to the reshape.
MaxReshapeTokens == 3

\* Most tokens in a payload with BIS tokens.
MaxBisTokens == 3

\* Most tokens in a payload with repeat notation.
MaxRepeatTokens == 3

\* Longest text handed to process_complexarray.
MaxBracketLen == 5

\* Most lines handed to Parameter.
MaxLines == 4

\* -------------------------------------------------------------------- state

VARIABLES
  pc,            \* where the running call or construction stands
  numpy_ragged,  \* what np.asarray does with rows of unequal length in this
                 \* build: "ValueError" (numpy >= 1.24) or "object" (before)
  in_data,       \* the call's argument data (or string)
  in_shape,      \* the call's argument shape
  cur_data,      \* the local data of convert_data_to and of _set_param
  cur_shape,     \* the local shape of convert_data_to and of _set_param
  cleaned,       \* process_string: data after clean_up_elements_in_array
  ret,           \* the value the call returned, or the exception it raised
  data_holder,   \* process_complexarray: the working text
  level,         \* process_complexarray: the level counter
  parser,        \* process_complexarray: the rows of level_1 .. level_n
  stringlist,    \* Parameter.__init__: the lines (also self._contents)
  params,        \* load_param: line number -> (dtype, key, value)
  param_addr,    \* load_param: the line numbers of the records
  index,         \* _set_param: the loop index
  header,        \* self._header, the (key, value) pairs in insertion order
  parameters,    \* self._parameters, likewise
  self_name,     \* Parameter.__init__: the argument name (also self._name)
  scan_id,       \* Parameter.__init__: the argument scan_id
  reco_id,       \* Parameter.__init__: the argument reco_id
  self_repr_items \* self._repr_items

vars == <<pc, numpy_ragged, in_data, in_shape, cur_data, cur_shape, cleaned, ret,
          data_holder, level, parser,
          stringlist, params, param_addr, index, header, parameters,
          self_name, scan_id, reco_id, self_repr_items>>

\* ------------------------------------------------------- Python str methods

Digits == {"0", "1", "2", "3", "4", "5", "6", "7", "8", "9"}

\* The whitespace str.strip() removes (the characters the inputs can hold).
Whitespace == {" ", "\t"}

DigitVal(c) ==
  CASE c = "0" -> 0 [] c = "1" -> 1 [] c = "2" -> 2 [] c = "3" -> 3
    [] c = "4" -> 4 [] c = "5" -> 5 [] c = "6" -> 6 [] c = "7" -> 7
    [] c = "8" -> 8 [] c = "9" -> 9

\* All sequences over alphabet A of length at most n.
StringsUpTo(A, n) == UNION {[1..k -> A] : k \in 0..n}

Slice(s, i, j) == IF j < i THEN <<>> ELSE SubSeq(s, i, j)

AllIn(s, A) == \A i \in 1..Len(s) : s[i] \in A

Contains(s, c) == \E i \in 1..Len(s) : s[i] = c

\* s[i..] starts with the characters of p.
StartsWithAt(s, i, p) ==
  /\ i + Len(p) - 1 <= Len(s)
  /\ \A k \in 1..Len(p) : s[i + k - 1] = p[k]

RECURSIVE lstrip(_)
lstrip(s) == IF s # <<>> /\ Head(s) \in Whitespace THEN lstrip(Tail(s)) ELSE s

RECURSIVE rstrip(_)
rstrip(s) ==
  IF s # <<>> /\ s[Len(s)] \in Whitespace
  THEN rstrip(SubSeq(s, 1, Len(s) - 1)) ELSE s

\* str.strip()
strip(s) == rstrip(lstrip(s))

\* str.split(sep) for a one-character sep: the pieces between the
\* separators, empty pieces kept; never an empty list.
RECURSIVE SplitFrom(_, _, _, _)
SplitFrom(s, sep, i, piece) ==
  IF i > Len(s) THEN <<piece>>
  ELSE IF s[i] = sep THEN <<piece>> \o SplitFrom(s, sep, i + 1, <<>>)
  ELSE SplitFrom(s, sep, i + 1, Append(piece, s[i]))

split(s, sep) == SplitFrom(s, sep, 1, <<>>)

\* sep.join(pieces)
RECURSIVE join(_, _)
join(pieces, sep) ==
  IF pieces = <<>> THEN <<>>
  ELSE IF Len(pieces) = 1 THEN pieces[1]
  ELSE pieces[1] \o sep \o join(Tail(pieces), sep)

\* str.replace(old, new) for a non-empty old: left to right, no overlaps.
RECURSIVE ReplaceFrom(_, _, _, _)
ReplaceFrom(s, old, new, i) ==
  IF i > Len(s) THEN <<>>
  ELSE IF StartsWithAt(s, i, old)
       THEN new \o ReplaceFrom(s, old, new, i + Len(old))
       ELSE <<s[i]>> \o ReplaceFrom(s, old, new, i + 1)

replace(s, old, new) == IF old = <<>> THEN s ELSE ReplaceFrom(s, old, new, 1)

\* ------------------------------------------------------------ Python values

PyNone == [t |-> "None"]
PyInt(i) == [t |-> "Int", v |-> i]
PyStr(s) == [t |-> "Str", s |-> s]
PyList(xs) == [t |-> "List", items |-> xs]
PyFloat(neg, m, e) == [t |-> "Float", k |-> "fin", neg |-> neg, m |-> m, e |-> e]
PyInf(neg) == [t |-> "Float", k |-> "inf", neg |-> neg, m |-> 0, e |-> 0]
Raise(exc) == [t |-> "Raise", exc |-> exc]

IsRaise(x) == x.t = "Raise"

\* The decimal number the digit string ds spells (0 for the empty string).
RECURSIVE DigitsToNat(_)
DigitsToNat(ds) ==
  IF ds = <<>> THEN 0
  ELSE 10 * DigitsToNat(SubSeq(ds, 1, Len(ds) - 1)) + DigitVal(ds[Len(ds)])

\* m * 10^e with the trailing zeros of m moved into e.
RECURSIVE Normalize(_, _)
Normalize(m, e) ==
  IF m = 0 THEN <<0, 0>>
  ELSE IF m % 10 = 0 THEN Normalize(m \div 10, e + 1)
  ELSE <<m, e>>

RECURSIVE NumDigits(_)
NumDigits(n) == IF n < 10 THEN 1 ELSE 1 + NumDigits(n \div 10)

RECURSIVE Pow10(_)
Pow10(n) == IF n = 0 THEN 1 ELSE 10 * Pow10(n - 1)

\* --------------------------------------------------------- float() and int()

FirstIndexIn(s, A) ==
  IF \E i \in 1..Len(s) : s[i] \in A
  THEN CHOOSE i \in 1..Len(s) : s[i] \in A /\ \A j \in 1..(i - 1) : s[j] \notin A
  ELSE 0

CountOf(s, c) == Cardinality({i \in 1..Len(s) : s[i] = c})

\* A mantissa float() accepts: digits with at most one "." and a digit.
ValidMantissa(mant) ==
  /\ AllIn(mant, Digits \cup {"."})
  /\ CountOf(mant, ".") <= 1
  /\ \E i \in 1..Len(mant) : mant[i] \in Digits

\* An exponent float() accepts (of the characters the patterns let through):
\* an optional "-" and at least one digit.
ValidExponent(ex) ==
  LET ds == IF ex # <<>> /\ Head(ex) = "-" THEN Tail(ex) ELSE ex
  IN  ds # <<>> /\ AllIn(ds, Digits)

\* The double nearest to (-1)^neg * m * 10^e, for the short mantissas of the
\* model: an infinity past the largest double 1.7976931348623157e308, a zero
\* below the smallest subnormal.
RoundToDouble(neg, m, e) ==
  LET n == Normalize(m, e)
      nd == NumDigits(n[1])
      sci == n[2] + nd - 1
      m6 == IF nd <= 6 THEN n[1] * Pow10(6 - nd) ELSE n[1] \div Pow10(nd - 6)
  IN  IF n[1] = 0 THEN PyFloat(neg, 0, 0)
      ELSE IF sci > 308 \/ (sci = 308 /\ m6 >= 179770) THEN PyInf(neg)
      ELSE IF sci < -324 THEN PyFloat(neg, 0, 0)
      ELSE PyFloat(neg, n[1], n[2])

\* float(s) for s over digits, ".", "-", "e", "E": the value, or ValueError.
float(s) ==
  LET neg == s # <<>> /\ Head(s) = "-"
      body == IF neg THEN Tail(s) ELSE s
      ep == FirstIndexIn(body, {"e", "E"})
      mant == IF ep = 0 THEN body ELSE Slice(body, 1, ep - 1)
      ex == IF ep = 0 THEN <<>> ELSE Slice(body, ep + 1, Len(body))
      dot == FirstIndexIn(mant, {"."})
      ip == IF dot = 0 THEN mant ELSE Slice(mant, 1, dot - 1)
      fp == IF dot = 0 THEN <<>> ELSE Slice(mant, dot + 1, Len(mant))
      exneg == ex # <<>> /\ Head(ex) = "-"
      exabs == DigitsToNat(IF exneg THEN Tail(ex) ELSE ex)
      exval == IF exneg THEN 0 - exabs ELSE exabs
  IN  IF ~ValidMantissa(mant) \/ (ep # 0 /\ ~ValidExponent(ex))
      THEN Raise("ValueError")
      ELSE RoundToDouble(neg, DigitsToNat(ip \o fp), exval - Len(fp))

\* int(s) for s over digits and "-": the value, or ValueError.
int(s) ==
  LET neg == s # <<>> /\ Head(s) = "-"
      body == IF neg THEN Tail(s) ELSE s
  IN  IF body = <<>> \/ ~AllIn(body, Digits) THEN Raise("ValueError")
      ELSE PyInt(IF neg THEN 0 - DigitsToNat(body) ELSE DigitsToNat(body))

\* ------------------------------------------------- the patterns of a scalar

\* ptrn_float  ^-?\d+\.\d+$
match_ptrn_float(s) ==
  LET body == IF s # <<>> /\ Head(s) = "-" THEN Tail(s) ELSE s
      dot == FirstIndexIn(body, {"."})
  IN  /\ dot > 1
      /\ dot < Len(body)
      /\ AllIn(Slice(body, 1, dot - 1), Digits)
      /\ AllIn(Slice(body, dot + 1, Len(body)), Digits)

\* ptrn_engnotation  ^-?[0-9.]+e-?[0-9.]+$
match_ptrn_engnotation(s) ==
  LET body == IF s # <<>> /\ Head(s) = "-" THEN Tail(s) ELSE s
      ep == FirstIndexIn(body, {"e"})
      mant == Slice(body, 1, ep - 1)
      rest == Slice(body, ep + 1, Len(body))
      ex == IF rest # <<>> /\ Head(rest) = "-" THEN Tail(rest) ELSE rest
  IN  /\ ep > 1
      /\ AllIn(mant, Digits \cup {"."})
      /\ ex # <<>>
      /\ AllIn(ex, Digits \cup {"."})

\* ptrn_integer  ^[-]*\d+$
match_ptrn_integer(s) ==
  LET d == FirstIndexIn(s, Digits)
  IN  /\ d > 0
      /\ \A i \in 1..(d - 1) : s[i] = "-"
      /\ \A i \in d..Len(s) : s[i] \in Digits

\* ptrn_string  ^\<(?P<string>[^>]*)\>$
match_ptrn_string(s) ==
  /\ Len(s) >= 2
  /\ s[1] = "<"
  /\ s[Len(s)] = ">"
  /\ \A i \in 2..(Len(s) - 1) : s[i] # ">"

\* re.sub(ptrn_string, r'\g<string>', s): the text between the brackets.
sub_ptrn_string(s) == IF match_ptrn_string(s) THEN Slice(s, 2, Len(s) - 1) ELSE s

\* Parser.convert_string_to
convert_string_to(string0) ==
  LET string1 == strip(string0)
      string == sub_ptrn_string(string1)
  IN  IF string = <<>> THEN PyNone
      ELSE IF match_ptrn_float(string) \/ match_ptrn_engnotation(string)
           THEN float(string)
      ELSE IF match_ptrn_integer(string) THEN int(string)
      ELSE PyStr(string)

\* ----------------------------------------------------------- repr of a float

RECURSIVE NatToDigits(_)
NatToDigits(n) ==
  LET d == <<"0", "1", "2", "3", "4", "5", "6", "7", "8", "9">>
  IN  IF n < 10 THEN <<d[n + 1]>> ELSE Append(NatToDigits(n \div 10), d[(n % 10) + 1])

RECURSIVE Zeros(_)
Zeros(n) == IF n <= 0 THEN <<>> ELSE <<"0">> \o Zeros(n - 1)

\* repr(x) of a float x (Python's shortest round-trip form): positional for a
\* decimal point position in -3..16, else exponent notation d.ddde+XX.
float_repr(x) ==
  LET sign == IF x.neg THEN <<"-">> ELSE <<>>
      ds == NatToDigits(x.m)
      nd == Len(ds)
      decpt == x.e + nd
      ex == decpt - 1
      exds == NatToDigits(IF ex < 0 THEN 0 - ex ELSE ex)
  IN  IF x.k = "inf" THEN sign \o <<"i", "n", "f">>
      ELSE IF x.m = 0 THEN sign \o <<"0", ".", "0">>
      ELSE IF decpt > 16 \/ decpt < -3
           THEN sign \o <<ds[1]>>
                \o (IF nd > 1 THEN <<".">> \o Slice(ds, 2, nd) ELSE <<>>)
                \o <<"e", IF ex < 0 THEN "-" ELSE "+">>
                \o (IF Len(exds) < 2 THEN <<"0">> ELSE <<>>) \o exds
      ELSE IF decpt <= 0 THEN sign \o <<"0", ".">> \o Zeros(0 - decpt) \o ds
      ELSE IF decpt < nd
           THEN sign \o Slice(ds, 1, decpt) \o <<".">> \o Slice(ds, decpt + 1, nd)
      ELSE sign \o ds \o Zeros(decpt - nd) \o <<".", "0">>

\* str(i) of an int i.
int_str(i) == IF i < 0 THEN <<"-">> \o NatToDigits(0 - i) ELSE NatToDigits(i)

\* ------------------------------------------------ the patterns of an array

\* The end of the match of ptrn_array / ptrn_braces  \(([^()]*)\)  that
\* starts at i, or 0: s[i] is "(" and the next bracket after it is ")".
ArrayMatchEnd(s, i) ==
  IF i > Len(s) \/ s[i] # "(" THEN 0
  ELSE LET j == FirstIndexIn(Slice(s, i + 1, Len(s)), {"(", ")"})
       IN  IF j # 0 /\ s[i + j] = ")" THEN i + j ELSE 0

\* re.findall(ptrn_array, s): the contents of the matches, left to right.
RECURSIVE FindallArrayFrom(_, _)
FindallArrayFrom(s, i) ==
  IF i > Len(s) THEN <<>>
  ELSE LET j == ArrayMatchEnd(s, i)
       IN  IF j # 0 THEN <<Slice(s, i + 1, j - 1)>> \o FindallArrayFrom(s, j + 1)
           ELSE FindallArrayFrom(s, i + 1)

findall_ptrn_array(s) == FindallArrayFrom(s, 1)

\* re.sub(ptrn_array, repl, s) where repl is the group itself (keep = TRUE,
\* r'\g<array>') or the empty string (keep = FALSE).
RECURSIVE SubArrayFrom(_, _, _)
SubArrayFrom(s, i, keep) ==
  IF i > Len(s) THEN <<>>
  ELSE LET j == ArrayMatchEnd(s, i)
       IN  IF j # 0
           THEN (IF keep THEN Slice(s, i + 1, j - 1) ELSE <<>>) \o SubArrayFrom(s, j + 1, keep)
           ELSE <<s[i]>> \o SubArrayFrom(s, i + 1, keep)

sub_ptrn_array(s) == SubArrayFrom(s, 1, TRUE)

\* re.search(ptrn_braces, s)
search_ptrn_braces(s) == \E i \in 1..Len(s) : ArrayMatchEnd(s, i) # 0

\* re.sub(ptrn_braces, '', s, count=1): only the first group goes.
RECURSIVE SubFirstFrom(_, _)
SubFirstFrom(s, i) ==
  IF i > Len(s) THEN <<>>
  ELSE IF ArrayMatchEnd(s, i) # 0 THEN Slice(s, ArrayMatchEnd(s, i) + 1, Len(s))
  ELSE <<s[i]>> \o SubFirstFrom(s, i + 1)

sub_first_braces(s) == SubFirstFrom(s, 1)

\* re.sub(ptrn_braces, '', s)
sub_ptrn_braces(s) == SubArrayFrom(s, 1, FALSE)

\* re.match(ptrn_complex_array, s)   \((?P<comparray>\(.*)\)$
match_ptrn_complex_array(s) ==
  Len(s) >= 3 /\ s[1] = "(" /\ s[2] = "(" /\ s[Len(s)] = ")"

\* re.match(ptrn_comment, s)   \$\$.*
match_ptrn_comment(s) == Len(s) >= 2 /\ s[1] = "$" /\ s[2] = "$"

\* The end of the match of ptrn_bisstring  \<(\$Bis[^>]*)\#\>  that starts
\* at i, or 0: "<$Bis", then the first ">" after it, with "#" before it.
BisMatchEnd(s, i) ==
  IF ~StartsWithAt(s, i, <<"<", "$", "B", "i", "s">>) THEN 0
  ELSE LET j == FirstIndexIn(Slice(s, i + 5, Len(s)), {">"})
       IN  IF j >= 2 /\ s[i + 4 + j - 1] = "#" THEN i + 4 + j ELSE 0

\* re.findall(ptrn_bisstring, s): the text between "<" and "#>" of each match.
RECURSIVE FindallBisFrom(_, _)
FindallBisFrom(s, i) ==
  IF i > Len(s) THEN <<>>
  ELSE LET j == BisMatchEnd(s, i)
       IN  IF j # 0 THEN <<Slice(s, i + 1, j - 2)>> \o FindallBisFrom(s, j + 1)
           ELSE FindallBisFrom(s, i + 1)

findall_ptrn_bisstring(s) == FindallBisFrom(s, 1)

\* s without its longest prefix over A.
RECURSIVE DropWhileIn(_, _)
DropWhileIn(s, A) == IF s # <<>> /\ Head(s) \in A THEN DropWhileIn(Tail(s), A) ELSE s

DropOneIn(s, A) == IF s # <<>> /\ Head(s) \in A THEN Tail(s) ELSE s

\* The second group of ptrn_at_array matches all of s:
\* [-]?\d*[.]?\d*[eE]?[-]?\d*?
MatchAtNumber(s) ==
  LET r1 == DropOneIn(s, {"-"})
      r2 == DropWhileIn(r1, Digits)
      r3 == DropOneIn(r2, {"."})
      r4 == DropWhileIn(r3, Digits)
      r5 == DropOneIn(r4, {"e", "E"})
      r6 == DropOneIn(r5, {"-"})
  IN  DropWhileIn(r6, Digits) = <<>>

\* The match of ptrn_at_array  @(\d*)\*\(([-]?\d*[.]?\d*[eE]?[-]?\d*?)\)
\* that starts at i: <<end, count, number>>, or <<0, <<>>, <<>>>>.
AtMatch(s, i) ==
  LET none == <<0, <<>>, <<>>>>
      rest == Slice(s, i + 1, Len(s))
      cnt == Slice(rest, 1, Len(rest) - Len(DropWhileIn(rest, Digits)))
      k == i + 1 + Len(cnt)
      close == FirstIndexIn(Slice(s, k + 2, Len(s)), {")"})
      num == Slice(s, k + 2, k + close)
  IN  IF i > Len(s) \/ s[i] # "@" THEN none
      ELSE IF ~StartsWithAt(s, k, <<"*", "(">>) THEN none
      ELSE IF close = 0 \/ ~MatchAtNumber(num) THEN none
      ELSE <<k + 1 + close, cnt, num>>

\* re.findall(ptrn_at_array, s): the (count, number) pairs, left to right.
RECURSIVE FindallAtFrom(_, _)
FindallAtFrom(s, i) ==
  IF i > Len(s) THEN <<>>
  ELSE LET m == AtMatch(s, i)
       IN  IF m[1] # 0 THEN <<<<m[2], m[3]>>>> \o FindallAtFrom(s, m[1] + 1)
           ELSE FindallAtFrom(s, i + 1)

findall_ptrn_at_array(s) == FindallAtFrom(s, 1)

\* ------------------------------------------------------------------- Parser

\* The shape sentinel -1.
Sentinel == PyInt(-1)

\* [f(c) for c in pieces] for a function that may raise: the list, or the
\* first exception raised.
FirstRaise(vals) ==
  IF \E i \in 1..Len(vals) : IsRaise(vals[i])
  THEN vals[CHOOSE i \in 1..Len(vals) :
              IsRaise(vals[i]) /\ \A j \in 1..(i - 1) : ~IsRaise(vals[j])]
  ELSE PyList(vals)

\* [Parser.convert_string_to(c) for c in pieces]
convert_each(pieces) == FirstRaise([i \in 1..Len(pieces) |-> convert_string_to(pieces[i])])

\* x == n for a Python value x and an int n (an int and a float compare by value).
PyEqualsInt(x, n) ==
  \/ x.t = "Int" /\ x.v = n
  \/ x.t = "Float" /\ x.k = "fin" /\ x.e >= 0 /\ x.e <= 8
       /\ (IF x.neg THEN 0 - x.m * Pow10(x.e) ELSE x.m * Pow10(x.e)) = n

\* The replacement text of clean_up_elements_in_array: str of the list of
\* num_cnt copies of num_repeat, without ",", "[" and "]".
RECURSIVE Repeated(_, _)
Repeated(text, n) ==
  IF n <= 0 THEN <<>>
  ELSE IF n = 1 THEN text
  ELSE text \o <<" ">> \o Repeated(text, n - 1)

\* The body of the loop of clean_up_elements_in_array for one (count,
\* number) pair: data after the replacement, or the exception of int() or
\* float().
clean_up_one(d, cnt, num, num_cnt, num_repeat) ==
  IF IsRaise(num_cnt) THEN num_cnt
  ELSE IF IsRaise(num_repeat) THEN num_repeat
  ELSE PyStr(replace(d, <<"@">> \o cnt \o <<"*", "(">> \o num \o <<")">>,
                     Repeated(float_repr(num_repeat), num_cnt.v)))

\* Parser.clean_up_elements_in_array.  The code walks the set of distinct
\* (count, number) pairs in no given order; a replacement leaves no "@" behind
\* and two patterns never overlap, so the order changes neither the text nor
\* whether int() or float() raises (both raise ValueError).
RECURSIVE CleanUpEach(_, _)
CleanUpEach(d, elements) ==
  IF elements = <<>> \/ IsRaise(d) THEN d
  ELSE CleanUpEach(clean_up_one(d.s, elements[1][1], elements[1][2],
                                int(elements[1][1]), float(elements[1][2])),
                   Tail(elements))

clean_up_elements_in_array(d) == CleanUpEach(PyStr(d), findall_ptrn_at_array(d))

\* e.split(',') as a list of str.
split_commas(e) == PyList([j \in 1..Len(split(e, ",")) |-> PyStr(split(e, ",")[j])])

\* [e.split(',') for e in elements] for a str (its characters) or a list.
SplitEach(elements) ==
  IF elements.t = "Str"
  THEN PyList([i \in 1..Len(elements.s) |-> split_commas(<<elements.s[i]>>)])
  ELSE IF \E i \in 1..Len(elements.items) : elements.items[i].t # "Str"
  THEN Raise("AttributeError")
  ELSE PyList([i \in 1..Len(elements.items) |-> split_commas(elements.items[i].s)])

\* len(elements), or TypeError.
PyLen(x) ==
  IF x.t = "Str" THEN PyInt(Len(x.s))
  ELSE IF x.t = "List" THEN PyInt(Len(x.items))
  ELSE Raise("TypeError")

\* process_bisarray without the split on the first dimension.
bisarray_unsplit(elements, shape, n) == elements

\* Parser.process_bisarray from its second statement, elements being the
\* list of the classified matches.
bisarray_shaped(elements, shape, n) ==
  IF shape.t # "List" THEN elements
  ELSE IF IsRaise(n) THEN n
  ELSE IF PyEqualsInt(shape.items[1], n.v) THEN SplitEach(elements)
  ELSE elements

bisarray_popped(elements, shape) == bisarray_shaped(elements, shape, PyLen(elements))

bisarray_classified(elements, shape) ==
  IF IsRaise(elements) THEN elements
  ELSE IF Len(elements.items) = 1 THEN bisarray_popped(elements.items[1], shape)
  ELSE bisarray_popped(elements, shape)

\* Parser.process_bisarray: shape is the parsed shape.
process_bisarray(elements, shape) == bisarray_classified(convert_each(elements), shape)

\* Parser.parse_shape after the re.sub.
parse_shape_stripped(shape) ==
  IF Contains(shape, ",") THEN convert_each(split(shape, ",")) ELSE PyStr(shape)

\* Parser.parse_shape: the sentinel, a bare str, or the list of the
\* classified dimensions.
parse_shape(shape) ==
  IF shape # Sentinel THEN parse_shape_stripped(sub_ptrn_array(shape.s)) ELSE shape

\* Parser.parse_array_data
parse_array_data(matched) ==
  IF \E i \in 1..Len(matched) : Contains(matched[i], ",")
  THEN FirstRaise([i \in 1..Len(matched) |-> convert_each(split(matched[i], ","))])
  ELSE convert_each(matched)

\* Parser.parse_data after the findall.
parse_data_matched(d, matched) ==
  IF matched # <<>> THEN parse_array_data(matched)
  ELSE IF Contains(d, ",") THEN convert_each(split(d, ","))
  ELSE IF Contains(d, " ") THEN convert_each(split(d, " "))
  ELSE PyStr(d)

\* Parser.parse_data
parse_data(d) == parse_data_matched(d, findall_ptrn_array(d))

\* --------------------------------------------------- numpy asarray / reshape

NdArray(dtype, dims, leaves) ==
  [t |-> "NdArray", dtype |-> dtype, shape |-> dims, leaves |-> leaves]

RECURSIVE Flatten(_)
Flatten(rows) == IF rows = <<>> THEN <<>> ELSE Head(rows).items \o Flatten(Tail(rows))

RECURSIVE Product(_)
Product(ns) == IF ns = <<>> THEN 1 ELSE Head(ns) * Product(Tail(ns))

\* The dtype numpy gives a sequence of these leaves.
dtype_of(leaves) ==
  IF \E i \in 1..Len(leaves) : leaves[i].t \notin {"Int", "Float", "Str"} THEN "object"
  ELSE IF \E i \in 1..Len(leaves) : leaves[i].t = "Str" THEN "str"
  ELSE IF \E i \in 1..Len(leaves) : leaves[i].t = "Float" THEN "float64"
  ELSE "int64"

\* A leaf as an element of an array of the dtype.
coerce(x, dtype) ==
  IF dtype = "str" /\ x.t = "Int" THEN PyStr(int_str(x.v))
  ELSE IF dtype = "str" /\ x.t = "Float" THEN PyStr(float_repr(x))
  ELSE IF dtype = "float64" /\ x.t = "Int"
       THEN RoundToDouble(x.v < 0, IF x.v < 0 THEN 0 - x.v ELSE x.v, 0)
  ELSE x

\* The items of a list are scalars.
IsFlat(items) == \A i \in 1..Len(items) : items[i].t # "List"

\* The items of a list are lists of scalars of one length.
IsRect(items) ==
  /\ \A i \in 1..Len(items) : items[i].t = "List"
  /\ \A i \in 1..Len(items) : Len(items[i].items) = Len(items[1].items)
  /\ \A i \in 1..Len(items) : \A j \in 1..Len(items[i].items) :
        items[i].items[j].t # "List"

\* The array of the leaves, each as an element of the dtype.
np_array_of(dt, dims, leaves) ==
  NdArray(dt, dims, [i \in 1..Len(leaves) |-> coerce(leaves[i], dt)])

np_array_leaves(dims, leaves) == np_array_of(dtype_of(leaves), dims, leaves)

\* np.asarray(data) of a list of scalars or a list of rows.  Rows of
\* different lengths give an array of objects or a ValueError, as the numpy
\* installed decides.
np_asarray(d) ==
  IF IsFlat(d.items) THEN np_array_leaves(<<Len(d.items)>>, d.items)
  ELSE IF IsRect(d.items)
  THEN np_array_leaves(<<Len(d.items), Len(d.items[1].items)>>, Flatten(d.items))
  ELSE IF numpy_ragged = "ValueError" THEN Raise("ValueError")
  ELSE NdArray("object", <<Len(d.items)>>, d.items)

\* The positions of the negative entries of a shape.
NegativeDims(dims) == {i \in 1..Len(dims) : dims[i].v < 0}

\* The product of the entries that are not negative.
KnownSize(dims) == Product([i \in 1..Len(dims) |-> IF dims[i].v < 0 THEN 1 ELSE dims[i].v])

\* reshape once the entries are ints: known is the product of the entries
\* given, size the number of elements.
np_reshape_sized(arr, dims, neg, known, size) ==
  IF Cardinality(neg) > 1 THEN Raise("ValueError")
  ELSE IF neg # {}
       THEN IF known = 0 \/ size % known # 0 THEN Raise("ValueError")
            ELSE NdArray(arr.dtype,
                         [i \in 1..Len(dims) |->
                            IF i \in neg THEN size \div known ELSE dims[i].v],
                         arr.leaves)
  ELSE IF known # size THEN Raise("ValueError")
  ELSE NdArray(arr.dtype, [i \in 1..Len(dims) |-> dims[i].v], arr.leaves)

\* ndarray.reshape(newshape) for a list newshape: every entry must be an
\* int (TypeError), one negative entry stands for the dimension that makes
\* the sizes agree, and the sizes must agree (ValueError).
np_reshape(arr, newshape) ==
  IF \E i \in 1..Len(newshape.items) : newshape.items[i].t # "Int" THEN Raise("TypeError")
  ELSE np_reshape_sized(arr, newshape.items, NegativeDims(newshape.items),
                        KnownSize(newshape.items), Len(arr.leaves))

\* The reshape of an array, or the exception of np.asarray.
reshape_of(arr, newshape) == IF IsRaise(arr) THEN arr ELSE np_reshape(arr, newshape)

\* np.asarray(data).reshape(shape)
asarray_reshape(d, newshape) == reshape_of(np_asarray(d), newshape)

\* ------------------------------------------------------ Parser, continued

\* The test of convert_data_to before the reshape: the shape is a list, no
\* element of data is a str, none is None.
reshape_test(d, shp) ==
  /\ shp.t = "List"
  /\ ~\E i \in 1..Len(d.items) : d.items[i].t = "Str"
  /\ \A i \in 1..Len(d.items) : d.items[i] # PyNone

\* Parser.convert_data_to, the statements after process_string: a list is
\* reshaped when the test passes, a str is classified, anything else is
\* returned as it is.
convert_tail(d, shp) ==
  IF d.t = "List"
  THEN IF reshape_test(d, shp) THEN asarray_reshape(d, shp) ELSE d
  ELSE IF d.t = "Str" THEN convert_string_to(d.s)
  ELSE d

\* The pair process_string returns, or the exception twice.
string_result(out, shp) == IF IsRaise(out) THEN <<out, out>> ELSE <<out, shp>>

\* Parser.convert_data_to after its first statement.
convert_rest(ps) == IF IsRaise(ps[1]) THEN ps[1] ELSE convert_tail(ps[1], ps[2])

\* process_complexarray calls convert_data_to on every piece of a group, and
\* convert_data_to, through process_string, calls process_complexarray.
RECURSIVE convert_data_to(_, _)

\* The list of a row without the values that are None, or the exception.
row_of(vals) ==
  IF IsRaise(vals) THEN vals
  ELSE PyList(SelectSeq(vals.items, LAMBDA v : v # PyNone))

\* The values of the pieces of a bracket group.
row_values(pieces) ==
  FirstRaise([i \in 1..Len(pieces) |-> convert_data_to(PyStr(strip(pieces[i])), Sentinel)])

\* One row of process_complexarray: the pieces of a bracket group, each
\* converted with the sentinel shape, those that come out None left out.
complex_row(contents) == row_of(row_values(split(contents, ",")))

\* The rows of the groups found in one pass.
complex_rows(found) == FirstRaise([i \in 1..Len(found) |-> complex_row(found[i])])

\* One pass of the while loop of process_complexarray over data_holder: the
\* rows of the groups found, or the exception raised.
complex_pass(holder) == complex_rows(findall_ptrn_array(holder))

\* Parser.process_complexarray: the loop run to its end from (holder, levels).
RECURSIVE complex_loop(_, _)
RECURSIVE complex_next(_, _, _)
complex_next(holder, levels, rows) ==
  IF IsRaise(rows) THEN rows
  ELSE complex_loop(sub_ptrn_braces(holder), Append(levels, rows))

complex_loop(holder, levels) ==
  IF search_ptrn_braces(holder) THEN complex_next(holder, levels, complex_pass(holder))
  ELSE [t |-> "Dict", levels |-> levels]

process_complexarray(d) == complex_loop(d, <<>>)

\* Parser.process_string, its if/elif/else over the cleaned data.
string_strategy(clean) ==
  IF match_ptrn_complex_array(clean) THEN process_complexarray(clean)
  ELSE IF match_ptrn_string(clean) THEN PyStr(sub_ptrn_string(clean))
  ELSE parse_data(clean)

\* Parser.process_string after clean_up_elements_in_array.
string_cleaned(clean, shp) ==
  IF IsRaise(clean) THEN <<clean, clean>>
  ELSE string_result(string_strategy(clean.s), shp)

\* Parser.process_string after parse_shape: elements are the matches of
\* ptrn_bisstring.
string_shaped(d, shp, elements) ==
  IF IsRaise(shp) THEN <<shp, shp>>
  ELSE IF elements # <<>> THEN string_result(process_bisarray(elements, shp), Sentinel)
  ELSE string_cleaned(clean_up_elements_in_array(d), shp)

\* Parser.process_string: <<data, shape>>, or <<exception, exception>>.
process_string(d, shape0) ==
  string_shaped(d, parse_shape(shape0), findall_ptrn_bisstring(d))

\* Parser.convert_data_to, its first statement: a str goes through
\* process_string.
convert_head(data0, shape0) ==
  IF data0.t = "Str" THEN process_string(data0.s, shape0) ELSE <<data0, shape0>>

\* Parser.convert_data_to
convert_data_to(data0, shape0) == convert_rest(convert_head(data0, shape0))

\* ------------------------------------------------------------- load_param

HEADER == 0
PARAMETER == 1

\* re.match(ptrn_param, line)   ^\#\#(?P<key>.*)\=(?P<value>.*)$
match_ptrn_param(line) ==
  /\ StartsWithAt(line, 1, <<"#", "#">>)
  /\ \E i \in 3..Len(line) : line[i] = "="

\* The position of the "=" between the groups were the key group not
\* greedy (".*?"): the first.
FirstEquals(line) == CHOOSE i \in 3..Len(line) :
                       line[i] = "=" /\ \A j \in 3..(i - 1) : line[j] # "="

\* The position of the "=" between the groups: ".*" is greedy, so the last.
LastEquals(line) == CHOOSE i \in 3..Len(line) :
                      line[i] = "=" /\ \A j \in (i + 1)..Len(line) : line[j] # "="

\* re.search(ptrn_key without its "^", key): a "$" anywhere in the key.
search_ptrn_key(key) == Contains(key, "$")

\* re.match(ptrn_key, key)   ^\$(?P<key>.*)
match_ptrn_key(key) == key # <<>> /\ key[1] = "$"

\* The record of a line that matches ptrn_param: (dtype, key, value).
param_record(line) ==
  LET eq == LastEquals(line)
      key == Slice(line, 3, eq - 1)
      value == Slice(line, eq + 1, Len(line))
  IN  IF match_ptrn_key(key)
      THEN [dtype |-> PARAMETER, key |-> Tail(key), value |-> value]
      ELSE [dtype |-> HEADER, key |-> key, value |-> value]

\* Parser.load_param: param_addresses.  A line number of the model is the
\* Python line number plus one.
RECURSIVE AddressesFrom(_, _)
AddressesFrom(lines, i) ==
  IF i > Len(lines) THEN <<>>
  ELSE (IF match_ptrn_param(lines[i]) THEN <<i>> ELSE <<>>) \o AddressesFrom(lines, i + 1)

load_param_addresses(lines) == AddressesFrom(lines, 1)

\* Parser.load_param: params.
load_param_params(lines) ==
  [a \in {i \in 1..Len(lines) : match_ptrn_param(lines[i])} |-> param_record(lines[a])]

\* ---------------------------------------------------------------- Parameter

\* np.diff(param_addr)
np_diff(addr) == [i \in 1..(Len(addr) - 1) |-> addr[i + 1] - addr[i]]

\* The lines of _process_contents without line.strip().
RECURSIVE content_lines_unstripped(_)
content_lines_unstripped(c_lines) ==
  IF c_lines = <<>> THEN <<>>
  ELSE (IF match_ptrn_comment(Head(c_lines)) THEN <<>> ELSE <<Head(c_lines)>>)
       \o content_lines_unstripped(Tail(c_lines))

\* [line.strip() for line in c_lines if not re.match(ptrn_comment, line)]
RECURSIVE content_lines(_)
content_lines(c_lines) ==
  IF c_lines = <<>> THEN <<>>
  ELSE (IF match_ptrn_comment(Head(c_lines)) THEN <<>> ELSE <<strip(Head(c_lines))>>)
       \o content_lines(Tail(c_lines))

\* Parameter._process_contents, the classification of the inline value:
\* <<data, shape>>, or <<exception, exception>>.
contents_scalar(scalar) ==
  IF IsRaise(scalar) THEN <<scalar, scalar>> ELSE <<scalar, Sentinel>>

\* Parameter._process_contents, the return under addr_diff[index] > 1: data
\* is the joined lines.
contents_joined(joined, value) ==
  IF joined # <<>> THEN <<PyStr(joined), PyStr(value)>>
  ELSE contents_scalar(convert_string_to(value))

\* Parameter._process_contents
process_contents(contents, addr, addr_diff, idx, value) ==
  IF addr_diff[idx] > 1
  THEN contents_joined(
         join(content_lines(Slice(contents, addr + 1, addr + addr_diff[idx] - 1)), <<" ">>),
         value)
  ELSE contents_scalar(convert_string_to(value))

\* Parameter._set_param, the branches on dtype: the value to store.
set_param_value(dtype, ps) ==
  IF IsRaise(ps[1]) THEN ps[1]
  ELSE IF dtype = PARAMETER THEN convert_data_to(ps[1], ps[2])
  ELSE IF dtype = HEADER THEN ps[1]
  ELSE Raise("ValueError")

\* The loop of _set_param stopping one record early.
set_param_short(addr) == 1..(Len(addr) - 2)

\* The records the loop of _set_param visits: param_addr[:-1].
set_param_range(addr) == 1..(Len(addr) - 1)

\* d.setdefault(key, value): a key already there keeps its value.
dict_setdefault(d, key, value) ==
  IF \E i \in 1..Len(d) : d[i][1] = key THEN d ELSE Append(d, <<key, value>>)

\* d[key] = value on an OrderedDict kept as its (key, value) pairs: a key
\* already there keeps its place.
dict_set(d, key, value) ==
  IF \E i \in 1..Len(d) : d[i][1] = key
  THEN [i \in 1..Len(d) |-> IF d[i][1] = key THEN <<key, value>> ELSE d[i]]
  ELSE Append(d, <<key, value>>)

dict_keys(d) == {d[i][1] : i \in 1..Len(d)}

dict_get(d, key) == d[CHOOSE i \in 1..Len(d) : d[i][1] = key][2]

\* if x: for the values an id can be: None, 0 and '' are false.
truthy(x) ==
  CASE x.t = "None" -> FALSE
    [] x.t = "Int" -> x.v # 0
    [] x.t = "Str" -> x.s # <<>>
    [] OTHER -> TRUE

\* str(x) inside an f-string, for the values an id can be.
format_id(x) ==
  CASE x.t = "None" -> <<"N", "o", "n", "e">>
    [] x.t = "Int" -> int_str(x.v)
    [] x.t = "Str" -> x.s
    [] OTHER -> <<"?">>

\* self._repr_items as Parameter.__init__ fills it.
repr_items(scan, reco) ==
  (IF truthy(scan)
   THEN << <<"s", "c", "a", "n", "_", "i", "d", "=">> \o format_id(scan) >>
   ELSE <<>>)
  \o
  (IF truthy(reco)
   THEN << <<"r", "e", "c", "o", "_", "i", "d", "=">> \o format_id(reco) >>
   ELSE <<>>)

\* ------------------------------------------------------------ the machines

\* A variable no call has set.
Unset == [t |-> "Unset"]

NoCall ==
  /\ in_data = Unset /\ in_shape = Unset
  /\ cur_data = Unset /\ cur_shape = Unset /\ cleaned = Unset /\ ret = Unset

NoLoop == data_holder = <<>> /\ level = 0 /\ parser = <<>>

NoParameter ==
  /\ stringlist = <<>> /\ params = <<>> /\ param_addr = <<>>
  /\ index = 0 /\ header = <<>> /\ parameters = <<>>
  /\ self_name = <<>> /\ scan_id = Unset /\ reco_id = Unset
  /\ self_repr_items = <<>>

callVars == <<in_data, in_shape, cur_data, cur_shape, cleaned, ret>>
loopVars == <<data_holder, level, parser>>
paramVars == <<stringlist, params, param_addr, index, header, parameters,
               self_name, scan_id, reco_id, self_repr_items>>

\* ---- Parser.convert_string_to, called on a token

ClassifyAlphabet == {"-", "1", ".", "e", "E", "<", ">", " ", "a"}

\* Tokens longer than the bound: 10.5, --5, 1.2.3e5, -1.5e-2, <12>.
ClassifyExamples ==
  { <<"1", "0", ".", "5">>, <<"-", "-", "5">>,
    <<"1", ".", "2", ".", "3", "e", "5">>,
    <<"-", "1", ".", "5", "e", "-", "2">>, <<"<", "1", "2", ">">> }

ClassifyInputs == StringsUpTo(ClassifyAlphabet, MaxTokenLen) \cup ClassifyExamples

InitClassify ==
  /\ pc = "convert_string_to"
  /\ numpy_ragged = "ValueError"
  /\ in_data \in {PyStr(s) : s \in ClassifyInputs}
  /\ in_shape = Unset /\ cur_data = Unset /\ cur_shape = Unset
  /\ cleaned = Unset /\ ret = Unset
  /\ NoLoop /\ NoParameter

ConvertStringTo ==
  /\ pc = "convert_string_to"
  /\ ret' = convert_string_to(in_data.s)
  /\ pc' = IF IsRaise(ret') THEN "raised" ELSE "return"
  /\ UNCHANGED <<numpy_ragged, in_data, in_shape, cur_data, cur_shape, cleaned>>
  /\ UNCHANGED <<loopVars, paramVars>>

NextClassify == ConvertStringTo

SpecClassify == InitClassify /\ [][NextClassify]_vars

\* ------------------------------------------------------------------ claims

\* C3: the Value Classifier is total: for every token convert_string_to
\* returns None, a float, an int or a str and never raises; a token that
\* matches a numeric pattern without being a number degrades to a str.
C3_ClassifierTotal ==
  pc # "convert_string_to" =>
    /\ pc = "return"
    /\ ret.t \in {"None", "Float", "Int", "Str"}

\* ---- Parser.convert_data_to, called on a payload and a declared shape

\* All concatenations of at most n of the tokens.
RECURSIVE Concatenations(_, _)
Concatenations(tokens, n) ==
  IF n = 0 THEN {<<>>}
  ELSE {s \o tok : s \in Concatenations(tokens, n - 1), tok \in tokens \cup {<<>>}}

InitConvert(payloads, shapes) ==
  /\ pc = "convert_data_to"
  /\ numpy_ragged \in {"ValueError", "object"}
  /\ in_data \in {PyStr(s) : s \in payloads}
  /\ in_shape \in shapes
  /\ cur_data = Unset /\ cur_shape = Unset /\ cleaned = Unset /\ ret = Unset
  /\ NoLoop /\ NoParameter

\* What process_string has in data after clean_up_elements_in_array, when
\* it gets there.
cleaned_of(d, shp, elements) ==
  IF IsRaise(shp) \/ elements # <<>> THEN Unset ELSE clean_up_elements_in_array(d)

\* convert_data_to up to the return of process_string: ps is what
\* process_string returns or raises.
ConvertCallWith(ps) ==
  /\ cur_data' = ps[1]
  /\ cur_shape' = ps[2]
  /\ ret' = IF IsRaise(ps[1]) THEN ps[1] ELSE ret
  /\ pc' = IF IsRaise(ps[1]) THEN "raised" ELSE "reshape"

ConvertCall ==
  /\ pc = "convert_data_to"
  /\ ConvertCallWith(convert_head(in_data, in_shape))
  /\ cleaned' = cleaned_of(in_data.s, parse_shape(in_shape), findall_ptrn_bisstring(in_data.s))
  /\ UNCHANGED <<numpy_ragged, in_data, in_shape, loopVars, paramVars>>

\* convert_data_to from there to its return.
ConvertReturn ==
  /\ pc = "reshape"
  /\ ret' = convert_tail(cur_data, cur_shape)
  /\ pc' = IF IsRaise(ret') THEN "raised" ELSE "return"
  /\ UNCHANGED <<numpy_ragged, in_data, in_shape, cur_data, cur_shape, cleaned>>
  /\ UNCHANGED <<loopVars, paramVars>>

NextConvert == ConvertCall \/ ConvertReturn

\* The payloads and shapes of the reshape: scalars, rows, and the dimension
\* lists (2,2), (abc,2), (4,), ( 4 ), (2,-1).
ReshapeTokens ==
  { <<"1">>, <<"2", ".", "5">>, <<"a">>, <<" ">>, <<",">>, <<"(", "1", ",", "a", ")">>, <<"(", "2", ",", "3", ")">>, <<"(", "3", ")">> }

ReshapeExamples ==
  { <<"1", " ", "2", " ", "3", " ", "4">>, <<"1", " ", "2", " ", "3">>, <<"(", "1", ",", "a", ")", " ", "(", "2", ",", "3", ")">>, <<"(", "1", ",", ")", " ", "(", "2", ",", "3", ")">>,
    <<"(", "1", ",", "2", ")", " ", "(", "3", ",", "4", ")">>, <<"1", ",", "2", ",", "3", ",", "4">> }

ReshapeShapes ==
  { Sentinel, PyStr(<<"(", "2", ",", "2", ")">>), PyStr(<<"(", "a", "b", "c", ",", "2", ")">>), PyStr(<<"(", "4", ",", ")">>),
    PyStr(<<"(", " ", "4", " ", ")">>), PyStr(<<"(", "2", ",", "-", "1", ")">>) }

InitReshape ==
  InitConvert(Concatenations(ReshapeTokens, MaxReshapeTokens) \cup ReshapeExamples,
              ReshapeShapes)

SpecReshape == InitReshape /\ [][NextConvert]_vars

\* The leaves of a list of scalars or of rows are ints and floats.
C4_AllLeavesNumeric(d) ==
  \A i \in 1..Len(d.items) :
    IF d.items[i].t = "List"
    THEN \A j \in 1..Len(d.items[i].items) : d.items[i].items[j].t \in {"Int", "Float"}
    ELSE d.items[i].t \in {"Int", "Float"}

\* C4: the final reshape is applied only when the shape left by the
\* strategies is a dimension list and every leaf of the structure, the
\* leaves inside rows included, is neither null nor a string; otherwise
\* convert_data_to returns the structure as the strategies produced it.
C4_ReshapeOnlyNumericLeaves ==
  (pc = "return" /\ cur_data.t = "List" /\ ret # cur_data)
    => (cur_shape.t = "List" /\ C4_AllLeavesNumeric(cur_data))

\* The declared shape parses to a dimension list with an entry that is a
\* string or empty.
C5_MalformedDimension ==
  /\ parse_shape(in_shape).t = "List"
  /\ \E i \in 1..Len(parse_shape(in_shape).items) :
        parse_shape(in_shape).items[i].t \in {"Str", "None"}

\* C5: a declared shape with a non-numeric or empty dimension makes
\* convert_data_to skip the reshape without error and return what it returns
\* when the shape is absent.
C5_MalformedShapeSkipsReshape ==
  C5_MalformedDimension =>
    /\ pc # "raised"
    /\ pc = "return" => ret = convert_data_to(in_data, Sentinel)

\* The number of leaves of a list of scalars or of rows.
C6_Count(d) ==
  Len(SelectSeq(d.items, LAMBDA x : x.t # "List"))
  + Len(Flatten(SelectSeq(d.items, LAMBDA x : x.t = "List")))

\* The shape convert_data_to holds is a list of non-negative ints whose
\* product is not the number of values of data.
C6_SizeMismatch ==
  /\ cur_data.t = "List" /\ cur_shape.t = "List"
  /\ \A i \in 1..Len(cur_shape.items) :
        cur_shape.items[i].t = "Int" /\ cur_shape.items[i].v >= 0
  /\ Product([i \in 1..Len(cur_shape.items) |-> cur_shape.items[i].v]) # C6_Count(cur_data)

\* C6: when the dimension list is numeric and its product differs from the
\* number of reconstructed values, convert_data_to does not raise and returns
\* the values unreshaped.
C6_SizeMismatchNotFatal ==
  C6_SizeMismatch =>
    /\ pc # "raised"
    /\ pc = "return" => ret = cur_data

\* ---- Parser.convert_data_to, called on a payload with BIS tokens

BisTokens ==
  { <<"<", "$", "B", "i", "s", "a", "#", ">">>, <<"<", "$", "B", "i", "s", "b", ",", "c", "#", ">">>, <<" ">>, <<"1">>, <<"@", "2", "*", "(", "1", ")">> }

\* The dimension lists (2,2), (5,1) and (--1,2), the bare token (2).
BisShapes ==
  { Sentinel, PyStr(<<"(", "2", ",", "2", ")">>), PyStr(<<"(", "5", ",", "1", ")">>), PyStr(<<"(", "-", "-", "1", ",", "2", ")">>),
    PyStr(<<"(", "2", ")">>) }

InitBis == InitConvert(Concatenations(BisTokens, MaxBisTokens), BisShapes)

SpecBis == InitBis /\ [][NextConvert]_vars

\* The texts of the BIS tokens of the payload.
C7_Tokens == findall_ptrn_bisstring(in_data.s)

\* The declared shape is a dimension list whose first entry is the int n.
C7_FirstDimension(n) ==
  /\ parse_shape(in_shape).t = "List"
  /\ PyEqualsInt(parse_shape(in_shape).items[1], n)

\* The pieces of a text between its commas, as a list of str.
C7_Pieces(text) == PyList([j \in 1..Len(split(text, ",")) |-> PyStr(split(text, ",")[j])])

\* What the BIS strategy makes of the tokens alone.
C7_Expected ==
  IF Len(C7_Tokens) >= 2
  THEN PyList([i \in 1..Len(C7_Tokens) |->
                 IF C7_FirstDimension(Len(C7_Tokens)) THEN C7_Pieces(C7_Tokens[i])
                 ELSE convert_string_to(C7_Tokens[i])])
  ELSE IF C7_FirstDimension(Len(convert_string_to(C7_Tokens[1]).s))
  THEN PyList([i \in 1..Len(convert_string_to(C7_Tokens[1]).s) |->
                 C7_Pieces(<<convert_string_to(C7_Tokens[1]).s[i]>>)])
  ELSE convert_string_to(C7_Tokens[1])

RepeatTokens ==
  { <<"@", "3", "*", "(", "0", ")">>, <<"@", "2", "*", "(", "1", ".", "5", ")">>, <<"@", "2", "*", "(", "1", "e", "1", "6", ")">>, <<"@", "*", "(", "1", ")">>, <<"1">>, <<" ">> }

RepeatShapes == { Sentinel, PyStr(<<"(", "3", ",", "1", ")">>) }

InitRepeat == InitConvert(Concatenations(RepeatTokens, MaxRepeatTokens), RepeatShapes)

SpecRepeat == InitRepeat /\ [][NextConvert]_vars

\* count copies of the text, space-separated.
RECURSIVE C8_Copies(_, _)
C8_Copies(text, count) ==
  IF count = 0 THEN <<>>
  ELSE IF count = 1 THEN text
  ELSE text \o <<" ">> \o C8_Copies(text, count - 1)

\* The text with every @count*(number) from position i on replaced by
\* count copies of the literal number.
RECURSIVE C8_ExpandFrom(_, _)
C8_ExpandFrom(s, i) ==
  IF i > Len(s) THEN <<>>
  ELSE IF AtMatch(s, i)[1] # 0
  THEN C8_Copies(AtMatch(s, i)[3], DigitsToNat(AtMatch(s, i)[2]))
       \o C8_ExpandFrom(s, AtMatch(s, i)[1] + 1)
  ELSE <<s[i]>> \o C8_ExpandFrom(s, i + 1)

\* C8: repeat-notation expansion replaces every @count*(number) of a
\* non-BIS payload by count space-separated literal repetitions of number
\* and leaves the other text as it is, so that an expanded entry classifies
\* as the literal does and @3*(0) with the sentinel shape gives [0, 0, 0].
C8_LiteralRepetition ==
  (pc # "convert_data_to" /\ ~IsRaise(parse_shape(in_shape))) =>
    /\ cleaned = PyStr(C8_ExpandFrom(in_data.s, 1))
    /\ (pc = "return" /\ in_data = PyStr(<<"@", "3", "*", "(", "0", ")">>) /\ in_shape = Sentinel)
         => ret = PyList(<<PyInt(0), PyInt(0), PyInt(0)>>)

\* ---- Parser.process_complexarray, called on a text

BracketAlphabet == {"(", ")", "1", ",", "-"}

BracketExamples == { <<"(", "(", "1", ",", "2", ")", ",", "(", "3", ",", "4", ")", ")">> }

InitComplex ==
  /\ pc = "process_complexarray"
  /\ numpy_ragged = "ValueError"
  /\ in_data \in {PyStr(s) : s \in StringsUpTo(BracketAlphabet, MaxBracketLen)
                                     \cup BracketExamples}
  /\ in_shape = Unset /\ cur_data = Unset /\ cur_shape = Unset
  /\ cleaned = Unset /\ ret = Unset
  /\ NoLoop /\ NoParameter

\* data_holder = copy(data); parser = defaultdict(list); level = 1
ComplexStart ==
  /\ pc = "process_complexarray"
  /\ data_holder' = in_data.s
  /\ parser' = <<>>
  /\ level' = 1
  /\ pc' = "while"
  /\ UNCHANGED <<numpy_ragged, callVars, paramVars>>

\* The body of the while loop with the rows of the pass, or the exception
\* a row raised.
ComplexPassWith(rows) ==
  /\ parser' = IF IsRaise(rows) THEN parser ELSE Append(parser, rows)
  /\ data_holder' = IF IsRaise(rows) THEN data_holder ELSE sub_ptrn_braces(data_holder)
  /\ level' = IF IsRaise(rows) THEN level ELSE level + 1
  /\ ret' = IF IsRaise(rows) THEN rows ELSE ret
  /\ pc' = IF IsRaise(rows) THEN "raised" ELSE "while"

\* One pass of the while loop.
ComplexPass ==
  /\ pc = "while"
  /\ search_ptrn_braces(data_holder)
  /\ ComplexPassWith(complex_pass(data_holder))
  /\ UNCHANGED <<numpy_ragged, in_data, in_shape, cur_data, cur_shape, cleaned>>
  /\ UNCHANGED paramVars

\* return dict(parser)
ComplexReturn ==
  /\ pc = "while"
  /\ ~search_ptrn_braces(data_holder)
  /\ ret' = [t |-> "Dict", levels |-> parser]
  /\ pc' = "return"
  /\ UNCHANGED <<numpy_ragged, in_data, in_shape, cur_data, cur_shape, cleaned>>
  /\ UNCHANGED <<loopVars, paramVars>>

NextComplex == ComplexStart \/ ComplexPass \/ ComplexReturn

SpecComplex == InitComplex /\ [][NextComplex]_vars

\* The nesting depth of the bracket pairs of a text, scanned from position
\* i: open holds, for every "(" not yet closed, the depth of the pairs inside
\* it, and best is the deepest pair closed so far.  A ")" with nothing open
\* and a "(" never closed make no pair.
RECURSIVE C9_DepthFrom(_, _, _, _)
C9_DepthFrom(s, i, open, best) ==
  IF i > Len(s) THEN best
  ELSE IF s[i] = "(" THEN C9_DepthFrom(s, i + 1, <<0>> \o open, best)
  ELSE IF s[i] = ")" /\ open # <<>>
  THEN C9_DepthFrom(s, i + 1,
         IF Len(open) = 1 THEN <<>>
         ELSE <<IF open[2] > open[1] + 1 THEN open[2] ELSE open[1] + 1>>
              \o Tail(Tail(open)),
         IF best > open[1] + 1 THEN best ELSE open[1] + 1)
  ELSE C9_DepthFrom(s, i + 1, open, best)

C9_Depth(s) == C9_DepthFrom(s, 1, <<>>, 0)

\* The loop of process_complexarray has done level - 1 passes: each took at
\* least the two brackets of a group off the working text, and there are no
\* more of them than the text nests pairs.
C9_PassesBounded ==
  /\ Len(parser) = level - 1
  /\ Len(data_holder) + 2 * (level - 1) <= Len(in_data.s)
  /\ level - 1 <= C9_Depth(in_data.s)
  /\ (pc = "return" /\ in_data.s \in BracketExamples) => Len(ret.levels) = 2

\* A step of the loop: a pass, which shortens the working text and counts a
\* level, or the exit, by return or by the exception of a row.
C9_LoopStep ==
  pc = "while" =>
    /\ pc' \in {"while", "return", "raised"}
    /\ pc' = "while" => (Len(data_holder') < Len(data_holder) /\ level' = level + 1)
    /\ pc' = "return" => (~search_ptrn_braces(data_holder) /\ Len(ret'.levels) = level - 1)

\* C9: the loop of process_complexarray ends for every text, balanced or
\* not: each pass shortens the working text, so that the passes cannot go
\* on for ever, the passes and the levels are at most the nesting depth of
\* the text, and ((1,2),(3,4)) gives two levels.
C9_LoopTerminates ==
  [][C9_LoopStep /\ (pc' # "process_complexarray" => C9_PassesBounded')]_vars

C9_Witness ==
  /\ pc = "return"
  /\ in_data = PyStr(<<"(", "(", "1", ",", "2", ")", ",", "(", "3", ",", "4", ")", ")">>)
  /\ ret.levels = << PyList(<<PyList(<<PyInt(1), PyInt(2)>>),
                              PyList(<<PyInt(3), PyInt(4)>>)>>),
                     PyList(<<PyList(<<>>)>>) >>

\* ---- Parameter.__init__, called on the lines of a file

\* ##$EchoTime=10.5, ##TITLE=5, ##$A=(2,2), ##$B=1 2, ##END=, a line of
\* values, a comment.
LinePool ==
  { <<"#", "#", "$", "E", "c", "h", "o", "T", "i", "m", "e", "=", "1", "0", ".", "5">>, <<"#", "#", "T", "I", "T", "L", "E", "=", "5">>, <<"#", "#", "$", "A", "=", "(", "2", ",", "2", ")">>, <<"#", "#", "$", "B", "=", "1", " ", "2">>,
    <<"#", "#", "E", "N", "D", "=">>, <<" ", "1", " ", "2", " ", "3", " ", "4">>, <<"$", "$", " ", "c">> }

RECURSIVE LinesUpTo(_)
LinesUpTo(n) ==
  IF n = 0 THEN {<<>>}
  ELSE LinesUpTo(n - 1) \cup {Append(ls, l) : ls \in LinesUpTo(n - 1), l \in LinePool}

\* A call Parameter(lines, name, scan_id, reco_id) about to run.
InitParameter(builds, lines, names, scan_ids, reco_ids) ==
  /\ pc = "__init__"
  /\ numpy_ragged \in builds
  /\ stringlist \in lines
  /\ self_name \in names
  /\ scan_id \in scan_ids
  /\ reco_id \in reco_ids
  /\ self_repr_items = <<>>
  /\ params = <<>> /\ param_addr = <<>> /\ index = 0
  /\ header = <<>> /\ parameters = <<>>
  /\ NoCall /\ NoLoop

\* Parameter(lines, 'x')
InitParam ==
  InitParameter({"ValueError", "object"}, LinesUpTo(MaxLines), {<<"x">>}, {PyNone}, {PyNone})

\* Parameter.__init__ up to the loop of _set_param.
LoadParam ==
  /\ pc = "__init__"
  /\ params' = load_param_params(stringlist)
  /\ param_addr' = load_param_addresses(stringlist)
  /\ header' = <<>>
  /\ parameters' = <<>>
  /\ index' = 0
  /\ pc' = "_set_param"
  /\ self_repr_items' = repr_items(scan_id, reco_id)
  /\ UNCHANGED <<numpy_ragged, stringlist, callVars, loopVars>>
  /\ UNCHANGED <<self_name, scan_id, reco_id>>

\* The body of the loop of _set_param after _process_contents: rec is
\* params[addr], val the value to store or the exception raised.
SetParamStore(rec, val) ==
  /\ ret' = IF IsRaise(val) THEN val ELSE ret
  /\ pc' = IF IsRaise(val) THEN "raised" ELSE "_set_param"
  /\ index' = IF IsRaise(val) THEN index ELSE index + 1
  /\ parameters' = IF ~IsRaise(val) /\ rec.dtype = PARAMETER
                   THEN dict_set(parameters, rec.key, val) ELSE parameters
  /\ header' = IF ~IsRaise(val) /\ rec.dtype = HEADER
               THEN dict_set(header, rec.key, val) ELSE header

\* The body of the loop of _set_param: ps is what _process_contents
\* returns or raises.
SetParamWith(rec, ps) ==
  /\ cur_data' = ps[1]
  /\ cur_shape' = ps[2]
  /\ SetParamStore(rec, set_param_value(rec.dtype, ps))

\* One iteration of the loop of _set_param.
SetParam ==
  /\ pc = "_set_param"
  /\ index + 1 \in set_param_range(param_addr)
  /\ SetParamWith(params[param_addr[index + 1]],
                  process_contents(stringlist, param_addr[index + 1], np_diff(param_addr),
                                   index + 1, params[param_addr[index + 1]].value))
  /\ UNCHANGED <<numpy_ragged, in_data, in_shape, cleaned, loopVars>>
  /\ UNCHANGED <<stringlist, params, param_addr>>
  /\ UNCHANGED <<self_name, scan_id, reco_id, self_repr_items>>

\* The loop is over and the object is there.
SetParamReturn ==
  /\ pc = "_set_param"
  /\ index + 1 \notin set_param_range(param_addr)
  /\ pc' = "done"
  /\ UNCHANGED <<numpy_ragged, callVars, loopVars, paramVars>>

NextParam == LoadParam \/ SetParam \/ SetParamReturn

SpecParam == InitParam /\ [][NextParam]_vars

\* C1: the value construction stores for a Header record is a raw string,
\* never classified into a number or null, with payload lines after the
\* record and without.
C1_HeaderRaw ==
  \A i \in 1..Len(header) : header[i][2].t = "Str"

\* The i-th record.
C2_Record(i) == params[param_addr[i]]

\* The keys of the records of a kind among the first n.
C2_Keys(kind, n) ==
  {C2_Record(i).key : i \in {j \in 1..n : C2_Record(j).dtype = kind}}

\* C2: construction emits a pair for the records at all addresses but the
\* last and for no other: the key of the last record is in a map only when
\* an earlier record of its kind has it, and with no record or one both maps
\* are empty.
C2_AllButLastEmitted ==
  /\ pc = "_set_param" =>
       /\ index < Len(param_addr) \/ index = 0
       /\ dict_keys(header) = C2_Keys(HEADER, index)
       /\ dict_keys(parameters) = C2_Keys(PARAMETER, index)
  /\ pc = "done" =>
       /\ Len(param_addr) <= 1 => (header = <<>> /\ parameters = <<>>)
       /\ Len(param_addr) >= 1 =>
            /\ index = Len(param_addr) - 1
            /\ dict_keys(header) = C2_Keys(HEADER, Len(param_addr) - 1)
            /\ dict_keys(parameters) = C2_Keys(PARAMETER, Len(param_addr) - 1)
            /\ Len(header) + Len(parameters) <= Len(param_addr) - 1

C2_Witness ==
  /\ pc = "done"
  /\ Len(param_addr) = 3
  /\ C2_Record(3).dtype = PARAMETER
  /\ C2_Record(3).key \notin dict_keys(parameters)
  /\ Len(header) = 1 /\ Len(parameters) = 1

\* The lines strictly between the i-th address and the next.
C10_Between(i) ==
  [k \in 1..(param_addr[i + 1] - param_addr[i] - 1) |-> stringlist[param_addr[i] + k]]

\* The lines of a sequence that do not start with "$$".
C10_NotComment(ls) == SelectSeq(ls, LAMBDA l : ~StartsWithAt(l, 1, <<"$", "$">>))

\* The payload of the i-th record as the code joins it: every line that is
\* kept is stripped first.
C10_Payload(i) ==
  join([k \in 1..Len(C10_NotComment(C10_Between(i))) |->
          strip(C10_NotComment(C10_Between(i))[k])], <<" ">>)

\* The value of the i-th record, or the exception raised for it.
C10_Value(i) ==
  IF C10_Payload(i) = <<>>
  THEN IF C2_Record(i).dtype = PARAMETER /\ ~IsRaise(convert_string_to(C2_Record(i).value))
       THEN convert_data_to(convert_string_to(C2_Record(i).value), Sentinel)
       ELSE convert_string_to(C2_Record(i).value)
  ELSE IF C2_Record(i).dtype = PARAMETER
       THEN convert_data_to(PyStr(C10_Payload(i)), PyStr(C2_Record(i).value))
       ELSE PyStr(C10_Payload(i))

\* The last of the first n records with the key and the kind of the i-th.
C10_Last(i, n) ==
  CHOOSE j \in i..n :
    /\ C2_Record(j).key = C2_Record(i).key /\ C2_Record(j).dtype = C2_Record(i).dtype
    /\ \A k \in (j + 1)..n :
         C2_Record(k).key # C2_Record(i).key \/ C2_Record(k).dtype # C2_Record(i).dtype

\* The map of the kind of the i-th record.
C10_Map(i) == IF C2_Record(i).dtype = PARAMETER THEN parameters ELSE header

\* C10: the value of a record comes from its inline value and the lines
\* strictly between its address and the next, and from nothing else.  The
\* payload is those lines without the ones that start with "$$", each
\* stripped of surrounding whitespace, joined by spaces.  With an empty
\* payload (always so when the gap is 1) the value is the classification of
\* the inline value, which for a Parameter record then goes through
\* convert_data_to with the sentinel shape, where a str is parsed again:
\* 10.5 stays Float 10.5 and "1 2" becomes the list [1, 2].  Otherwise a
\* Header record keeps the payload and a Parameter record gets
\* convert_data_to of the payload with the inline value as the shape.  When
\* the classifier or convert_data_to raises, construction raises.
C10_RecordValues ==
  /\ pc \in {"_set_param", "done", "raised"} =>
       \A i \in 1..index :
         dict_get(C10_Map(i), C2_Record(i).key) = C10_Value(C10_Last(i, index))
  /\ pc = "raised" => (IsRaise(ret) /\ ret = C10_Value(index + 1))
  /\ (pc = "done" /\ stringlist = << <<"#", "#", "$", "E", "c", "h", "o", "T", "i", "m", "e", "=", "1", "0", ".", "5">>, <<"#", "#", "E", "N", "D", "=">> >>)
       => parameters = << << <<"E", "c", "h", "o", "T", "i", "m", "e">>, PyFloat(FALSE, 105, -1) >> >>

C10_Witness ==
  /\ pc = "done"
  /\ stringlist = << <<"#", "#", "$", "A", "=", "(", "2", ",", "2", ")">>, <<"$", "$", " ", "c">>, <<" ", "1", " ", "2", " ", "3", " ", "4">>, <<"#", "#", "E", "N", "D", "=">> >>
  /\ dict_get(parameters, <<"A">>) =
       NdArray("int64", <<2, 2>>, <<PyInt(1), PyInt(2), PyInt(3), PyInt(4)>>)

\* The payload of the i-th record as the claim has it: the lines joined
\* as they are.
C10_ClaimedPayload(i) == join(C10_NotComment(C10_Between(i)), <<" ">>)

C10_ClaimedValue(i) ==
  IF C10_ClaimedPayload(i) = <<>> THEN convert_string_to(C2_Record(i).value)
  ELSE IF C2_Record(i).dtype = PARAMETER
       THEN convert_data_to(PyStr(C10_ClaimedPayload(i)), PyStr(C2_Record(i).value))
       ELSE PyStr(C10_ClaimedPayload(i))

\* C10 as the claim has it: the classification of the inline value alone,
\* or the lines between the addresses joined as they are.
C10_ClaimedRecordValues ==
  pc = "done" =>
    \A i \in 1..index :
      dict_get(C10_Map(i), C2_Record(i).key) = C10_ClaimedValue(C10_Last(i, index))

\* ---- The read operations of a constructed Parameter

LowerCase == <<"a", "b", "c", "d", "e", "f", "g", "h", "i", "j", "k", "l", "m",
               "n", "o", "p", "q", "r", "s", "t", "u", "v", "w", "x", "y", "z">>
UpperCase == <<"A", "B", "C", "D", "E", "F", "G", "H", "I", "J", "K", "L", "M",
               "N", "O", "P", "Q", "R", "S", "T", "U", "V", "W", "X", "Y", "Z">>

\* str.upper() and str.lower() on one character.
upper(c) ==
  IF \E i \in 1..26 : LowerCase[i] = c
  THEN UpperCase[CHOOSE i \in 1..26 : LowerCase[i] = c] ELSE c

lower(c) ==
  IF \E i \in 1..26 : UpperCase[i] = c
  THEN LowerCase[CHOOSE i \in 1..26 : UpperCase[i] = c] ELSE c

\* str.capitalize(): the first character upper-cased, the others lower-cased.
capitalize(s) ==
  [i \in 1..Len(s) |-> IF i = 1 THEN upper(s[i]) ELSE lower(s[i])]

CapitalizeEach(pieces) == [i \in 1..Len(pieces) |-> capitalize(pieces[i])]

\* The property Parameter.name.
name_of(nm) ==
  IF Contains(nm, "_")
  THEN join(CapitalizeEach(split(nm, "_")), <<>>)
  ELSE capitalize(nm)

\* Parameter.__repr__
repr_of(nm, items) ==
  name_of(nm) \o <<"(">> \o join(items, <<",", " ">>) \o <<")">>

OrderedDict(d) == [t |-> "OrderedDict", items |-> d]

\* self.parameters.get(key): None for a key that is not there.
getitem_or_none(ps, key) ==
  IF key \in dict_keys(ps) THEN dict_get(ps, key) ELSE PyNone

\* self.parameters[key]
getitem(ps, key) ==
  IF key \in dict_keys(ps) THEN dict_get(ps, key) ELSE Raise("KeyError")

\* Parameter.keys(): the keys of self.parameters in insertion order.
keys_of(ps) == [t |-> "odict_keys", items |-> [i \in 1..Len(ps) |-> ps[i][1]]]

\* What the instance and its class define, found by attribute lookup
\* before __getattr__ is tried (those of object left out).
InstanceAttributes ==
  { <<"_", "n", "a", "m", "e">>, <<"_", "r", "e", "p", "r", "_", "i", "t", "e", "m", "s">>, <<"_", "c", "o", "n", "t", "e", "n", "t", "s">>, <<"_", "h", "e", "a", "d", "e", "r">>, <<"_", "p", "a", "r", "a", "m", "e", "t", "e", "r", "s">> }

Properties ==
  { <<"n", "a", "m", "e">>, <<"p", "a", "r", "a", "m", "e", "t", "e", "r", "s">>, <<"h", "e", "a", "d", "e", "r">> }

Methods ==
  { <<"k", "e", "y", "s">>, <<"_", "p", "r", "o", "c", "e", "s", "s", "_", "c", "o", "n", "t", "e", "n", "t", "s">>, <<"_", "s", "e", "t", "_", "p", "a", "r", "a", "m">> }

\* The attribute key where normal lookup finds it.
own_attribute(key, nm, items, lines, hd, ps) ==
  CASE key = <<"_", "n", "a", "m", "e">> -> PyStr(nm)
    [] key = <<"_", "r", "e", "p", "r", "_", "i", "t", "e", "m", "s">> -> PyList([i \in 1..Len(items) |-> PyStr(items[i])])
    [] key = <<"_", "c", "o", "n", "t", "e", "n", "t", "s">> -> PyList([i \in 1..Len(lines) |-> PyStr(lines[i])])
    [] key \in {<<"_", "h", "e", "a", "d", "e", "r">>, <<"h", "e", "a", "d", "e", "r">>} -> OrderedDict(hd)
    [] key \in {<<"_", "p", "a", "r", "a", "m", "e", "t", "e", "r", "s">>, <<"p", "a", "r", "a", "m", "e", "t", "e", "r", "s">>} ->
         OrderedDict(ps)
    [] key = <<"n", "a", "m", "e">> -> PyStr(name_of(nm))
    [] OTHER -> [t |-> "method", name |-> key]

\* getattr(self, key): __getattr__ runs only when normal lookup fails.
getattr(key, nm, items, lines, hd, ps) ==
  IF key \in InstanceAttributes \cup Properties \cup Methods
  THEN own_attribute(key, nm, items, lines, hd, ps)
  ELSE getitem(ps, key)

\* Most lines handed to a Parameter that is then read.
MaxReadLines == 3

\* ##$A=1, ##$N=, ##TITLE=5, ##$name=7, ##END=
ReadLinePool ==
  { <<"#", "#", "$", "A", "=", "1">>, <<"#", "#", "$", "N", "=">>, <<"#", "#", "T", "I", "T", "L", "E", "=", "5">>, <<"#", "#", "$", "n", "a", "m", "e", "=", "7">>, <<"#", "#", "E", "N", "D", "=">> }

RECURSIVE ReadLinesUpTo(_)
ReadLinesUpTo(n) ==
  IF n = 0 THEN {<<>>}
  ELSE ReadLinesUpTo(n - 1)
       \cup {Append(ls, l) : ls \in ReadLinesUpTo(n - 1), l \in ReadLinePool}

\* acqp, visu_pars
ReadNames == { <<"a", "c", "q", "p">>, <<"v", "i", "s", "u", "_", "p", "a", "r", "s">> }

ReadScanIds == {PyNone, PyInt(0), PyInt(3)}
ReadRecoIds == {PyNone, PyInt(1)}

\* A, N, TITLE, zz, name, keys
ReadKeys ==
  { <<"A">>, <<"N">>, <<"T", "I", "T", "L", "E">>, <<"z", "z">>, <<"n", "a", "m", "e">>, <<"k", "e", "y", "s">> }

\* No line of ReadLinePool holds an array, so the numpy build plays no part.
InitRead ==
  InitParameter({"ValueError"}, ReadLinesUpTo(MaxReadLines), ReadNames, ReadScanIds, ReadRecoIds)

\* The object exists: construction returned, and reads may have followed.
Constructed ==
  pc \in {"done", "__getitem__", "__getattr__", "keys", "name", "__repr__",
          "header", "parameters"}

\* A defaultdict after d[key]: a key that was not there is there with the
\* default value (here None).
after_lookup_default(d, key) ==
  IF key.t = "Str" /\ key.s \notin dict_keys(d) THEN Append(d, <<key.s, PyNone>>) ELSE d

\* self._parameters after self.parameters[key], self.parameters.keys() or
\* a read of the map: an OrderedDict has no __missing__, so a lookup never
\* inserts.
after_lookup(d, key) == d

\* A read operation op asked for key (None when it takes none) and
\* returned or raised val.
ReadReturns(op, key, val) ==
  /\ Constructed
  /\ pc' = op
  /\ in_data' = key
  /\ ret' = val
  /\ parameters' = after_lookup(parameters, key)
  /\ UNCHANGED <<numpy_ragged, in_shape, cur_data, cur_shape, cleaned, loopVars>>
  /\ UNCHANGED <<stringlist, params, param_addr, index, header>>
  /\ UNCHANGED <<self_name, scan_id, reco_id, self_repr_items>>

\* obj[key]
GetItem == \E key \in ReadKeys :
  ReadReturns("__getitem__", PyStr(key), getitem(parameters, key))

\* obj.key
GetAttr == \E key \in ReadKeys :
  ReadReturns("__getattr__", PyStr(key),
              getattr(key, self_name, self_repr_items, stringlist, header, parameters))

\* obj.keys()
Keys == ReadReturns("keys", PyNone, keys_of(parameters))

\* obj.name
Name == ReadReturns("name", PyNone, PyStr(name_of(self_name)))

\* repr(obj)
Repr == ReadReturns("__repr__", PyNone, PyStr(repr_of(self_name, self_repr_items)))

\* obj.header
Header == ReadReturns("header", PyNone, OrderedDict(header))

\* obj.parameters
Parameters == ReadReturns("parameters", PyNone, OrderedDict(parameters))

ReadOp == GetItem \/ GetAttr \/ Keys \/ Name \/ Repr \/ Header \/ Parameters

NextRead ==
  \/ LoadParam \/ SetParam \/ SetParamReturn
  \/ GetItem \/ GetAttr \/ Keys \/ Name \/ Repr \/ Header \/ Parameters

SpecRead == InitRead /\ [][NextRead]_vars

\* The keys of the records of the given kind that _set_param processed.
C11_RecordKeys(kind) ==
  { params[param_addr[i]].key : i \in { j \in set_param_range(param_addr) : params[param_addr[j]].dtype = kind } }

\* The names attribute lookup finds on the object itself.
C11_OwnNames == InstanceAttributes \cup Properties \cup Methods

\* What a lookup of key has to return: the stored value, or KeyError.
C11_Found(key) ==
  /\ (key \in C11_RecordKeys(PARAMETER)) => ~IsRaise(ret) /\ ret = dict_get(parameters, key)
  /\ (key \notin C11_RecordKeys(PARAMETER)) => ret = Raise("KeyError")

\* C11 (amended): obj[key] succeeds exactly for the keys of the processed
\* Parameter records, also when the stored value is None, and raises
\* KeyError for every other key, header-only keys included; obj.key does
\* the same for every key that is not an attribute, property or method of
\* the object itself, and for those it returns that attribute and never
\* raises; keys() lists exactly the keys of the processed Parameter
\* records, each once.
C11_Lookup ==
  /\ pc = "__getitem__" => C11_Found(in_data.s)
  /\ (pc = "__getattr__" /\ in_data.s \notin C11_OwnNames) => C11_Found(in_data.s)
  /\ (pc = "__getattr__" /\ in_data.s \in C11_OwnNames) =>
        /\ ~IsRaise(ret)
        /\ (in_data.s \in C11_RecordKeys(PARAMETER) => ret # dict_get(parameters, in_data.s))
  /\ pc = "keys" =>
        /\ {ret.items[i] : i \in 1..Len(ret.items)} = C11_RecordKeys(PARAMETER)
        /\ Len(ret.items) = Cardinality(C11_RecordKeys(PARAMETER))

\* Parameter(['##$N=', '##TITLE=5', '##END='], ...): obj['N'] is None.
C11_Witness ==
  /\ pc = "__getitem__"
  /\ in_data = PyStr(<<"N">>)
  /\ ret = PyNone
  /\ <<"T", "I", "T", "L", "E">> \in C11_RecordKeys(HEADER)
  /\ <<"T", "I", "T", "L", "E">> \notin C11_RecordKeys(PARAMETER)

\* C11 as claimed: key lookup and attribute lookup alike succeed exactly
\* for the keys of the parameters map.
C11_ClaimedLookup ==
  pc \in {"__getitem__", "__getattr__"} =>
    (~IsRaise(ret) <=> in_data.s \in dict_keys(parameters))

\* C13: once construction has returned, no step (a key lookup, an
\* attribute lookup, keys(), name, repr, a read of header or parameters,
\* failing lookups included) changes the name, the tags, the headers map
\* or the parameters map.
C13_ReadsLeaveUnchanged ==
  [][Constructed => /\ Constructed'
                    /\ self_name' = self_name
                    /\ self_repr_items' = self_repr_items
                    /\ header' = header
                    /\ parameters' = parameters]_vars

\* A lookup has failed on an object with a tag, a header and a parameter.
C13_Witness ==
  /\ pc \in {"__getitem__", "__getattr__"}
  /\ ret = Raise("KeyError")
  /\ in_data = PyStr(<<"T", "I", "T", "L", "E">>)
  /\ self_repr_items = << <<"s", "c", "a", "n", "_", "i", "d", "=", "3">> >>
  /\ dict_keys(header) = {<<"T", "I", "T", "L", "E">>}
  /\ dict_keys(parameters) = {<<"A">>}

\* ---- Parameter.__init__, called on lines whose keys repeat

\* Most lines handed to Parameter when keys repeat.
MaxDupLines == 4

\* ##$A=1, ##$A=2, ##A=3, ##A=4, ##END=
DupLinePool ==
  { <<"#", "#", "$", "A", "=", "1">>, <<"#", "#", "$", "A", "=", "2">>, <<"#", "#", "A", "=", "3">>, <<"#", "#", "A", "=", "4">>, <<"#", "#", "E", "N", "D", "=">> }

RECURSIVE DupLinesUpTo(_)
DupLinesUpTo(n) ==
  IF n = 0 THEN {<<>>}
  ELSE DupLinesUpTo(n - 1)
       \cup {Append(ls, l) : ls \in DupLinesUpTo(n - 1), l \in DupLinePool}

InitDup ==
  InitParameter({"ValueError", "object"}, DupLinesUpTo(MaxDupLines), {<<"x">>}, {PyNone}, {PyNone})

SpecDup == InitDup /\ [][NextParam]_vars

\* No key occurs twice in the map d.
C12_Unique(d) == \A i, j \in 1..Len(d) : d[i][1] = d[j][1] => i = j

\* The processed records (the first index of them) with the given kind and key.
C12_Records(kind, key) ==
  { i \in 1..index : C2_Record(i).dtype = kind /\ C2_Record(i).key = key }

\* The record with the highest address among the records rs.
C12_Highest(rs) == CHOOSE i \in rs : \A j \in rs : param_addr[j] <= param_addr[i]

\* The map d holds, for every key of a processed record of the kind, the
\* value of the record with the highest address, and no other key.
C12_LastWins(d, kind) ==
  /\ dict_keys(d) = { C2_Record(i).key : i \in { j \in 1..index : C2_Record(j).dtype = kind } }
  /\ \A key \in dict_keys(d) :
       dict_get(d, key) = C10_Value(C12_Highest(C12_Records(kind, key)))

\* C12: keys are unique within the headers map and within the parameters
\* map; records of the same kind with the same key raise no error and the
\* map holds the value of the one with the highest address; a Header
\* record and a Parameter record with the same key each keep their value
\* in their own map.
C12_UniqueLastWins ==
  /\ C12_Unique(header) /\ C12_Unique(parameters)
  /\ pc # "raised"
  /\ pc \in {"_set_param", "done"} =>
       /\ C12_LastWins(header, HEADER)
       /\ C12_LastWins(parameters, PARAMETER)

\* Parameter(['##$A=1', '##A=3', '##$A=2', '##END='], 'x'): parameters is
\* {A: 2} and header is {A: 3}.
C12_Witness ==
  /\ pc = "done"
  /\ stringlist = << <<"#", "#", "$", "A", "=", "1">>, <<"#", "#", "A", "=", "3">>, <<"#", "#", "$", "A", "=", "2">>, <<"#", "#", "E", "N", "D", "=">> >>
  /\ parameters = << << <<"A">>, PyInt(2) >> >>
  /\ header = << << <<"A">>, PyInt(3) >> >>

\* ---- Parser.convert_data_to, called on a quoted string

\* Most characters between the angle brackets.
MaxQuotedLen == 3

QuotedAlphabet == {"1", "2", "a", " ", "-"}

\* Sentinel, ( 3 ), (2,2)
QuotedShapes ==
  { Sentinel, PyStr(<<"(", " ", "3", " ", ")">>), PyStr(<<"(", "2", ",", "2", ")">>) }

InitQuoted ==
  InitConvert({<<"<">> \o s \o <<">">> : s \in StringsUpTo(QuotedAlphabet, MaxQuotedLen)},
              QuotedShapes)

SpecQuoted == InitQuoted /\ [][NextConvert]_vars

\* C14: when the whole cleaned payload is one angle-bracket-quoted string,
\* convert_data_to returns the text between the brackets as a str, as it
\* is, whatever that text and whatever the declared shape.
C14_InnerTextAsIs ==
  (pc \in {"return", "raised"} /\ cleaned.t = "Str" /\ match_ptrn_string(cleaned.s))
    => ret = PyStr(Slice(cleaned.s, 2, Len(cleaned.s) - 1))

\* C15: with exactly one BIS token the result is a single scalar for
\* every declared shape; a list of lists of comma-separated pieces comes
\* only with several tokens and a first dimension equal to their number.
C15_OneTokenCollapses ==
  (pc = "return" /\ findall_ptrn_bisstring(in_data.s) # <<>>) =>
    /\ Len(findall_ptrn_bisstring(in_data.s)) = 1 => ret.t # "List"
    /\ (ret.t = "List" /\ \E i \in 1..Len(ret.items) : ret.items[i].t = "List") =>
         /\ Len(findall_ptrn_bisstring(in_data.s)) >= 2
         /\ parse_shape(in_shape).t = "List"
         /\ PyEqualsInt(parse_shape(in_shape).items[1], Len(findall_ptrn_bisstring(in_data.s)))

\* The number of "(" less the number of ")" in the first n characters of s.
C16_Open(s, n) ==
  Cardinality({i \in 1..n : s[i] = "("}) - Cardinality({i \in 1..n : s[i] = ")"})

\* The brackets of s are well nested.
C16_WellNested(s) ==
  /\ C16_Open(s, Len(s)) = 0
  /\ \A n \in 1..Len(s) : C16_Open(s, n) >= 0

\* The number of bracket groups of s at nesting depth k, the outermost
\* groups being at depth 1.
C16_GroupsAtDepth(s, k) ==
  Cardinality({i \in 1..Len(s) : s[i] = "(" /\ C16_Open(s, i) = k})

\* C16: process_complexarray returns its levels outermost first: level k
\* holds one row per bracket group at nesting depth k, each row the
\* classified pieces of the group without the empty ones.
C16_OutermostFirst ==
  (pc = "return" /\ C16_WellNested(in_data.s)) =>
    \A k \in 1..Len(ret.levels) :
      /\ Len(ret.levels[k].items) = C16_GroupsAtDepth(in_data.s, k)
      /\ \A r \in 1..Len(ret.levels[k].items) :
           \A c \in 1..Len(ret.levels[k].items[r].items) :
             ret.levels[k].items[r].items[c] # PyNone

\* ---- Parameter.__init__, called on lines that are and are not records

\* Most lines handed to Parameter when the lines test the tokenizer.
MaxLoadLines == 3

\* ##$k=1, ##k=1, ##a=b=c, ##$$k==, ##a$=1, ##=, and the lines that are
\* no records: #k=1, ##k, " ##k=1".
LoadLinePool ==
  { <<"#", "#", "$", "k", "=", "1">>, <<"#", "#", "k", "=", "1">>, <<"#", "#", "a", "=", "b", "=", "c">>, <<"#", "#", "$", "$", "k", "=", "=">>, <<"#", "#", "a", "$", "=", "1">>, <<"#", "#", "=">>,
    <<"#", "k", "=", "1">>, <<"#", "#", "k">>, <<" ", "#", "#", "k", "=", "1">> }

RECURSIVE LoadLinesUpTo(_)
LoadLinesUpTo(n) ==
  IF n = 0 THEN {<<>>}
  ELSE LoadLinesUpTo(n - 1)
       \cup {Append(ls, l) : ls \in LoadLinesUpTo(n - 1), l \in LoadLinePool}

InitLoad ==
  InitParameter({"ValueError"}, LoadLinesUpTo(MaxLoadLines), {<<"x">>}, {PyNone}, {PyNone})

SpecLoad == InitLoad /\ [][NextParam]_vars

\* The line has the form ##<key>=<value>.
C17_IsRecordLine(line) ==
  /\ Len(line) >= 3 /\ line[1] = "#" /\ line[2] = "#"
  /\ \E i \in 3..Len(line) : line[i] = "="

\* The record of line a: its kind follows the character after "##", and
\* its key, "=" and its inline value, as text, make up the rest of the
\* line (without the one "$" of a Parameter).
C17_RecordOf(a) ==
  /\ params[a].dtype \in {HEADER, PARAMETER}
  /\ params[a].dtype = PARAMETER <=> stringlist[a][3] = "$"
  /\ params[a].key \o <<"=">> \o params[a].value
       = Slice(stringlist[a], IF params[a].dtype = PARAMETER THEN 4 ELSE 3, Len(stringlist[a]))

\* What load_param has returned.
C17_Loaded ==
  /\ \A i \in 1..(Len(param_addr) - 1) : param_addr[i] < param_addr[i + 1]
  /\ {param_addr[i] : i \in 1..Len(param_addr)}
       = {a \in 1..Len(stringlist) : C17_IsRecordLine(stringlist[a])}
  /\ DOMAIN params = {param_addr[i] : i \in 1..Len(param_addr)}
  /\ \A a \in DOMAIN params : C17_RecordOf(a)

\* C17: load_param records exactly the lines of the form ##<key>=<value>:
\* the addresses are strictly ascending and are those of the matching
\* lines; a record is a Parameter exactly when its key begins with "$"
\* (that one "$" stripped) and a Header otherwise, so _set_param never
\* raises for an invalid kind; the inline values are kept as text; the
\* lines are handed on as they came.
C17_Tokenizer ==
  [][/\ stringlist' = stringlist
     /\ pc = "__init__" => C17_Loaded'
     /\ pc = "_set_param" => (C17_Loaded' /\ params' = params /\ param_addr' = param_addr)]_vars

\* Parameter(['##$$k==', ' ##k=1', '##a$=1'], 'x') after load_param.
C17_Witness ==
  /\ pc = "_set_param"
  /\ stringlist = << <<"#", "#", "$", "$", "k", "=", "=">>, <<" ", "#", "#", "k", "=", "1">>, <<"#", "#", "a", "$", "=", "1">> >>
  /\ param_addr = <<1, 3>>
  /\ params[1] = [dtype |-> PARAMETER, key |-> <<"$", "k", "=">>, value |-> <<>>]
  /\ params[3] = [dtype |-> HEADER, key |-> <<"a", "$">>, value |-> <<"1">>]

\* C20: a record line with several "=" is split at the last one: the
\* inline value holds no "=", the key holds all the others, and key, "="
\* and value make up the line after "##" (and after the "$" of a
\* Parameter).
C20_SplitAtLastEquals ==
  pc \in {"_set_param", "done", "raised"} =>
    \A a \in DOMAIN params :
      /\ ~Contains(params[a].value, "=")
      /\ params[a].key \o <<"=">> \o params[a].value
           = Slice(stringlist[a], IF params[a].dtype = PARAMETER THEN 4 ELSE 3, Len(stringlist[a]))

\* Parameter(['##a=b=c', '##$$k==', ...], 'x'): the keys are a=b and $k=.
C20_Witness ==
  /\ pc = "done"
  /\ Len(stringlist) >= 2
  /\ stringlist[1] = <<"#", "#", "a", "=", "b", "=", "c">>
  /\ stringlist[2] = <<"#", "#", "$", "$", "k", "=", "=">>
  /\ params[1] = [dtype |-> HEADER, key |-> <<"a", "=", "b">>, value |-> <<"c">>]
  /\ params[2] = [dtype |-> PARAMETER, key |-> <<"$", "k", "=">>, value |-> <<>>]

\* s without one leading "-".
C18_Unsigned(s) == IF s # <<>> /\ Head(s) = "-" THEN Tail(s) ELSE s

\* One or more digits.
C18_IsDigits(s) == s # <<>> /\ AllIn(s, Digits)

\* digits, or digits "." digits.
C18_IsDecimal(s) ==
  \/ C18_IsDigits(s)
  \/ \E d \in 2..(Len(s) - 1) :
       s[d] = "." /\ C18_IsDigits(Slice(s, 1, d - 1)) /\ C18_IsDigits(Slice(s, d + 1, Len(s)))

\* Optional sign, digits, ".", digits.
C18_IsDecimalFloat(s) == ~C18_IsDigits(C18_Unsigned(s)) /\ C18_IsDecimal(C18_Unsigned(s))

\* Optional sign, digits, optional "." digits, "e" or "E", optional sign,
\* digits.
C18_IsScientific(s) ==
  \E x \in 2..(Len(C18_Unsigned(s)) - 1) :
    /\ C18_Unsigned(s)[x] \in {"e", "E"}
    /\ C18_IsDecimal(Slice(C18_Unsigned(s), 1, x - 1))
    /\ C18_IsDigits(C18_Unsigned(Slice(C18_Unsigned(s), x + 1, Len(C18_Unsigned(s)))))

\* The token after trimming and stripping one pair of enclosing brackets.
C18_Token == sub_ptrn_string(strip(in_data.s))

\* C18: convert_string_to follows the ordered steps for every token: after
\* trimming and unwrapping, an empty token is None; a decimal float or a
\* scientific-notation token with "e" or "E" is a float; a signed integer
\* is an int; everything else is the token as a str.
C18_OrderedSteps ==
  pc = "return" =>
    IF C18_Token = <<>> THEN ret = PyNone
    ELSE IF C18_IsDecimalFloat(C18_Token) \/ C18_IsScientific(C18_Token) THEN ret.t = "Float"
    ELSE IF C18_IsDigits(C18_Unsigned(C18_Token)) THEN ret.t = "Int"
    ELSE ret = PyStr(C18_Token)

\* ---- Parser.convert_data_to, called on a payload of the generic strategy

\* Most tokens of a payload of the generic strategy.
MaxGenericTokens == 3

\* 1, a, a space, a tab, a comma, (1), (1,2), (a)
GenericTokens ==
  { <<"1">>, <<"a">>, <<" ">>, <<"\t">>, <<",">>, <<"(", "1", ")">>, <<"(", "1", ",", "2", ")">>, <<"(", "a", ")">> }

\* Sentinel, ( 2 )
GenericShapes == { Sentinel, PyStr(<<"(", " ", "2", " ", ")">>) }

InitGeneric == InitConvert(Concatenations(GenericTokens, MaxGenericTokens), GenericShapes)

SpecGeneric == InitGeneric /\ [][NextConvert]_vars

\* The list of the classified pieces.
C19_Classified(pieces) == PyList([i \in 1..Len(pieces) |-> convert_string_to(pieces[i])])

\* s with every tab turned into a space.
C19_Spaced(s) == [i \in 1..Len(s) |-> IF s[i] \in Whitespace THEN " " ELSE s[i]]

\* The pieces of s between whitespace characters, and those pieces
\* without the empty ones (the runs of characters that are no whitespace).
C19_Words(s) == split(C19_Spaced(s), " ")
C19_Runs(s) == SelectSeq(C19_Words(s), LAMBDA w : w # <<>>)

\* What the generic strategy makes of the cleaned payload d according to
\* its description: the values it may give.
C19_Expected(d, groups) ==
  IF groups # <<>>
  THEN IF \E i \in 1..Len(groups) : Contains(groups[i], ",")
       THEN {PyList([i \in 1..Len(groups) |-> C19_Classified(split(groups[i], ","))])}
       ELSE {C19_Classified(groups)}
  ELSE IF Contains(d, ",") THEN {C19_Classified(split(d, ","))}
  ELSE IF \E i \in 1..Len(d) : d[i] \in Whitespace
       THEN {C19_Classified(C19_Words(d)), C19_Classified(C19_Runs(d))}
  ELSE {convert_string_to(d)}

\* The payload went through the generic strategy: no BIS token, no complex
\* array, no quoted string.
C19_Generic ==
  /\ pc = "return"
  /\ cleaned.t = "Str"
  /\ ~match_ptrn_complex_array(cleaned.s)
  /\ ~match_ptrn_string(cleaned.s)

\* C19: the generic strategy makes one row per bracket group, split on
\* commas when any group holds a comma and one scalar per group otherwise;
\* without groups it splits on commas if there is one, else on whitespace
\* if there is some, else classifies the payload as one value.
C19_GenericStrategy ==
  C19_Generic =>
    (IF cur_data.t = "Str" THEN ret ELSE cur_data)
      \in C19_Expected(cleaned.s, findall_ptrn_array(cleaned.s))

====
